---- MODULE Spec2Model ----
(***************************************************************************)
(* The creature recomputation engine of DiceCloud                          *)
(* (src/app/package.json, lines 99-831: recomputeCreatureById,             *)
(* buildCreature, computeCreature, computeStat, computeEffect,             *)
(* applyEffect, combineStat, evaluateCalculation and the write-back).      *)
(*                                                                         *)
(* The engine is single threaded.  It is modelled as a stack machine: the  *)
(* JavaScript call stack is the variable `stack`, one frame per active     *)
(* computeStat or evaluateCalculation call, and every action is one        *)
(* stretch of straight-line code between two calls or returns.             *)
(***************************************************************************)
EXTENDS Integers, Sequences, FiniteSets, TLC

(***************************************************************************)
(* JavaScript values.  Every value is a record of the same shape so that   *)
(* values of different JavaScript types can be compared.                   *)
(*   num   a finite number, the rational n/d in lowest terms, d > 0        *)
(*   nan   NaN                                                             *)
(*   inf   +Infinity (n = 1) or -Infinity (n = -1)                         *)
(*   undef undefined                                                       *)
(*   str   a string, s its characters (one-character strings)              *)
(* Finite numbers are exact rationals: the numbers of the model are small  *)
(* and are sums and products of integers and halves, which IEEE doubles    *)
(* also represent exactly.                                                 *)
(***************************************************************************)
Abs(i) == IF i < 0 THEN -i ELSE i

RECURSIVE Gcd(_, _)
Gcd(a, b) == IF b = 0 THEN a ELSE Gcd(b, a % b)

Rat(n, d) ==
  LET g == Gcd(Abs(n), d)
  IN  [t |-> "num", n |-> n \div g, d |-> d \div g, s |-> <<>>]

Num(i) == [t |-> "num", n |-> i, d |-> 1, s |-> <<>>]
NaN == [t |-> "nan", n |-> 0, d |-> 1, s |-> <<>>]
Infinity == [t |-> "inf", n |-> 1, d |-> 1, s |-> <<>>]
NegInfinity == [t |-> "inf", n |-> -1, d |-> 1, s |-> <<>>]
Undefined == [t |-> "undef", n |-> 0, d |-> 1, s |-> <<>>]
Str(chars) == [t |-> "str", n |-> 0, d |-> 1, s |-> chars]

IsNum(v) == v.t = "num"
IsStr(v) == v.t = "str"
Sign(i) == IF i < 0 THEN -1 ELSE IF i > 0 THEN 1 ELSE 0

(***************************************************************************)
(* Characters.                                                             *)
(***************************************************************************)
Digits == <<"0", "1", "2", "3", "4", "5", "6", "7", "8", "9">>
DigitChars == {Digits[i] : i \in 1..10}
DigitVal(c) == (CHOOSE i \in 1..10 : Digits[i] = c) - 1
LetterChars ==
  {"a", "b", "c", "d", "e", "f", "g", "h", "i", "j", "k", "l", "m", "n", "o",
   "p", "q", "r", "s", "t", "u", "v", "w", "x", "y", "z", "A", "B", "C", "D",
   "E", "F", "G", "H", "I", "J", "K", "L", "M", "N", "O", "P", "Q", "R", "S",
   "T", "U", "V", "W", "X", "Y", "Z", "_"}
SpaceChars == {" "}

RECURSIVE Pow10(_)
Pow10(k) == IF k = 0 THEN 1 ELSE 10 * Pow10(k - 1)

(***************************************************************************)
(* Number -> String (ECMAScript Number::toString for the finite numbers    *)
(* of the model: an integer part and, for a non-integer, the digits of     *)
(* the fraction; the fractions of the model have finite expansions).       *)
(***************************************************************************)
RECURSIVE NatToChars(_)
NatToChars(i) ==
  IF i < 10 THEN <<Digits[i + 1]>>
  ELSE NatToChars(i \div 10) \o <<Digits[(i % 10) + 1]>>

RECURSIVE FracToChars(_, _)
FracToChars(r, d) ==
  IF r = 0 THEN <<>>
  ELSE <<Digits[((10 * r) \div d) + 1]>> \o FracToChars((10 * r) % d, d)

NumberToChars(v) ==
  LET a == Abs(v.n)
      whole == NatToChars(a \div v.d)
      frac == FracToChars(a % v.d, v.d)
  IN  (IF v.n < 0 THEN <<"-">> ELSE <<>>) \o whole
      \o (IF frac = <<>> THEN <<>> ELSE <<".">> \o frac)

\* ToString of any value, as string concatenation and the printing of a
\* substituted constant use it.
ToChars(v) ==
  CASE v.t = "str" -> v.s
    [] v.t = "num" -> NumberToChars(v)
    [] v.t = "nan" -> <<"N", "a", "N">>
    [] v.t = "inf" ->
         (IF v.n < 0 THEN <<"-">> ELSE <<>>)
         \o <<"I", "n", "f", "i", "n", "i", "t", "y">>
    [] v.t = "undef" -> <<"u", "n", "d", "e", "f", "i", "n", "e", "d">>

(***************************************************************************)
(* String -> Number (ECMAScript StringToNumber): white space is trimmed,   *)
(* the empty string is 0, then an optional sign and either "Infinity" or a *)
(* decimal literal: digits, optional fraction, optional exponent.  A       *)
(* string that is not wholly such a literal is NaN.  Hexadecimal, octal    *)
(* and binary literals (0x.., 0o.., 0b..) are not modelled; no string of   *)
(* the model contains one.                                                 *)
(***************************************************************************)
RECURSIVE TrimLeft(_)
TrimLeft(cs) ==
  IF cs # <<>> /\ Head(cs) \in SpaceChars THEN TrimLeft(Tail(cs)) ELSE cs

RECURSIVE TrimRight(_)
TrimRight(cs) ==
  IF cs # <<>> /\ cs[Len(cs)] \in SpaceChars
  THEN TrimRight(SubSeq(cs, 1, Len(cs) - 1))
  ELSE cs

Trim(cs) == TrimRight(TrimLeft(cs))

\* The length of the longest prefix of cs made of digits.
RECURSIVE DigitPrefix(_)
DigitPrefix(cs) ==
  IF cs # <<>> /\ Head(cs) \in DigitChars THEN 1 + DigitPrefix(Tail(cs)) ELSE 0

RECURSIVE DigitsValue(_)
DigitsValue(cs) ==
  IF cs = <<>> THEN 0
  ELSE 10 * DigitsValue(SubSeq(cs, 1, Len(cs) - 1)) + DigitVal(cs[Len(cs)])

Drop(cs, k) == SubSeq(cs, k + 1, Len(cs))

\* The exponent part `rest` of a literal, which is empty or e/E, an
\* optional sign and digits: whether it is well formed, its sign, its value.
NoExponent == [ok |-> TRUE, neg |-> FALSE, ex |-> 0]
BadExponent == [ok |-> FALSE, neg |-> FALSE, ex |-> 0]
ExponentDigits(neg, ds) ==
  IF ds # <<>> /\ DigitPrefix(ds) = Len(ds)
  THEN [ok |-> TRUE, neg |-> neg, ex |-> DigitsValue(ds)]
  ELSE BadExponent
ExponentBody(body) ==
  IF body # <<>> /\ Head(body) \in {"+", "-"}
  THEN ExponentDigits(Head(body) = "-", Tail(body))
  ELSE ExponentDigits(FALSE, body)
Exponent(rest) ==
  IF rest = <<>> THEN NoExponent
  ELSE IF Head(rest) \in {"e", "E"} THEN ExponentBody(Tail(rest))
  ELSE BadExponent

\* mant / 10^nf scaled by the exponent e.
Scaled(mant, nf, e) ==
  IF ~e.ok THEN NaN
  ELSE IF mant = 0 THEN Num(0)
  ELSE IF e.neg THEN Rat(mant, Pow10(nf) * Pow10(e.ex))
  ELSE Rat(mant * Pow10(e.ex), Pow10(nf))

\* The literal whose integer part is int and whose fraction, after the
\* point, is the first nf characters of tl.
WithFraction(int, tl, nf) ==
  IF Len(int) + nf = 0 THEN NaN
  ELSE Scaled(DigitsValue(int) * Pow10(nf) + DigitsValue(SubSeq(tl, 1, nf)), nf,
              Exponent(Drop(tl, nf)))

\* The literal whose integer part is int and which goes on with rest.
AfterInteger(int, rest) ==
  IF rest # <<>> /\ Head(rest) = "." THEN WithFraction(int, Tail(rest), DigitPrefix(Tail(rest)))
  ELSE IF int = <<>> THEN NaN
  ELSE Scaled(DigitsValue(int), 0, Exponent(rest))

SplitAt(cs, n) == AfterInteger(SubSeq(cs, 1, n), Drop(cs, n))

\* An unsigned decimal literal: the value, or NaN when cs is not one.
UnsignedDecimal(cs) == SplitAt(cs, DigitPrefix(cs))

InfinityChars == <<"I", "n", "f", "i", "n", "i", "t", "y">>

Negate(v) ==
  CASE v.t = "num" -> [v EXCEPT !.n = -v.n]
    [] v.t = "inf" -> [v EXCEPT !.n = -v.n]
    [] OTHER -> v

Magnitude(body) == IF body = InfinityChars THEN Infinity ELSE UnsignedDecimal(body)
WithSign(negative, v) == IF negative THEN Negate(v) ELSE v

\* StringToNumber on a trimmed string.
SignedLiteral(cs) ==
  IF cs = <<>> THEN Num(0)
  ELSE WithSign(Head(cs) = "-",
                Magnitude(IF Head(cs) \in {"+", "-"} THEN Tail(cs) ELSE cs))

StringToNumber(chars) == SignedLiteral(Trim(chars))

\* ToNumber of any value.
ToNumber(v) ==
  CASE v.t = "str" -> StringToNumber(v.s)
    [] v.t = "undef" -> NaN
    [] OTHER -> v

(***************************************************************************)
(* The JavaScript operators the engine uses.                               *)
(***************************************************************************)
NumAdd(a, b) ==
  CASE a.t = "nan" \/ b.t = "nan" -> NaN
    [] a.t = "inf" /\ b.t = "inf" -> IF a.n = b.n THEN a ELSE NaN
    [] a.t = "inf" -> a
    [] b.t = "inf" -> b
    [] OTHER -> Rat(a.n * b.d + b.n * a.d, a.d * b.d)

NumMul(a, b) ==
  CASE a.t = "nan" \/ b.t = "nan" -> NaN
    [] a.t = "inf" \/ b.t = "inf" ->
         IF a.n = 0 \/ b.n = 0 THEN NaN
         ELSE IF Sign(a.n) * Sign(b.n) > 0 THEN Infinity ELSE NegInfinity
    [] OTHER -> Rat(a.n * b.n, a.d * b.d)

\* a < b on numbers; NaN compares false with everything.
NumLess(a, b) ==
  CASE a.t = "nan" \/ b.t = "nan" -> FALSE
    [] a.t = "inf" /\ b.t = "inf" -> a.n < b.n
    [] a.t = "inf" -> a.n < 0
    [] b.t = "inf" -> b.n > 0
    [] OTHER -> a.n * b.d < b.n * a.d

\* Characters in code-unit order, for the comparison of two strings.
CharOrder ==
  <<" ", "+", "-", ".", "0", "1", "2", "3", "4", "5", "6", "7", "8", "9",
    "A", "B", "C", "D", "E", "F", "G", "H", "I", "J", "K", "L", "M", "N",
    "O", "P", "Q", "R", "S", "T", "U", "V", "W", "X", "Y", "Z", "_",
    "a", "b", "c", "d", "e", "f", "g", "h", "i", "j", "k", "l", "m", "n",
    "o", "p", "q", "r", "s", "t", "u", "v", "w", "x", "y", "z">>
CharCode(c) == CHOOSE i \in 1..Len(CharOrder) : CharOrder[i] = c

RECURSIVE CharsLess(_, _)
CharsLess(x, y) ==
  IF y = <<>> THEN FALSE
  ELSE IF x = <<>> THEN TRUE
  ELSE IF Head(x) = Head(y) THEN CharsLess(Tail(x), Tail(y))
  ELSE CharCode(Head(x)) < CharCode(Head(y))

\* a + b: concatenation when either operand is a string, else addition.
JsAdd(a, b) ==
  IF IsStr(a) \/ IsStr(b) THEN Str(ToChars(a) \o ToChars(b))
  ELSE NumAdd(ToNumber(a), ToNumber(b))

\* a - b, a * b, a / 2: always numeric.
JsSub(a, b) == NumAdd(ToNumber(a), Negate(ToNumber(b)))
JsMul(a, b) == NumMul(ToNumber(a), ToNumber(b))
JsHalf(a) == NumMul(ToNumber(a), Rat(1, 2))

\* a < b and a > b: by code units when both are strings, else numeric.
JsLess(a, b) ==
  IF IsStr(a) /\ IsStr(b) THEN CharsLess(a.s, b.s)
  ELSE NumLess(ToNumber(a), ToNumber(b))
JsGreater(a, b) == JsLess(b, a)

\* Math.floor
FloorOf(x) == IF x.t = "num" THEN Num(x.n \div x.d) ELSE x
MathFloor(a) == FloorOf(ToNumber(a))

\* ToBoolean
Truthy(v) ==
  CASE v.t = "num" -> v.n # 0
    [] v.t = "inf" -> TRUE
    [] v.t = "str" -> v.s # <<>>
    [] OTHER -> FALSE

\* typeof v === 'number'
IsNumberType(v) == v.t \in {"num", "nan", "inf"}

\* _.isFinite(v) of underscore 1.10: isFinite(v) && !isNaN(parseFloat(v)).
\* For a string, isFinite converts the whole string and parseFloat a
\* prefix of it, so the test holds exactly when the string is a finite
\* numeric literal and not blank.
UnderscoreIsFinite(v) ==
  CASE v.t = "num" -> TRUE
    [] v.t = "str" -> ToNumber(v).t = "num" /\ Trim(v.s) # <<>>
    [] OTHER -> FALSE

(***************************************************************************)
(* The formula engine: math.parse, node.transform, node.eval and           *)
(* node.toString of mathjs, for the fragment of its expression language    *)
(* the model uses: a sum  operand + operand + ...  whose operands are      *)
(* identifiers and unsigned decimal literals, with optional spaces.  A     *)
(* parsed expression is the sequence of its operands, left to right, the   *)
(* order in which transform visits them.  Any other string used in the     *)
(* model is one math.parse rejects with a SyntaxError (a sum that ends in  *)
(* "+").  An identifier that is in no registry and that mathjs does not    *)
(* define itself (as foo, e0) makes eval throw "Undefined symbol".         *)
(***************************************************************************)
SymbolNode(name) == [isSymbolNode |-> TRUE, name |-> name, value |-> Undefined]
ConstantNode(val) == [isSymbolNode |-> FALSE, name |-> <<>>, value |-> val]

\* The length of the identifier at the head of cs (0 when there is none).
RECURSIVE IdentTail(_)
IdentTail(cs) ==
  IF cs # <<>> /\ Head(cs) \in (LetterChars \cup DigitChars)
  THEN 1 + IdentTail(Tail(cs))
  ELSE 0
IdentPrefix(cs) ==
  IF cs # <<>> /\ Head(cs) \in LetterChars THEN 1 + IdentTail(Tail(cs)) ELSE 0

\* The length of the number literal at the head of cs: digits, then
\* optionally a point and digits.
NumberPrefix(cs) ==
  LET ni == DigitPrefix(cs)
      rest == Drop(cs, ni)
      nf == IF rest # <<>> /\ Head(rest) = "." THEN DigitPrefix(Tail(rest)) ELSE 0
  IN  IF ni = 0 THEN 0 ELSE IF nf = 0 THEN ni ELSE ni + 1 + nf

ParseError == [ok |-> FALSE, nodes |-> <<>>]

\* The operands of cs, which starts where an operand is expected.
RECURSIVE ParseSum(_)
ParseSum(chars) ==
  LET cs == TrimLeft(chars)
      ni == IdentPrefix(cs)
      nn == NumberPrefix(cs)
      len == IF ni > 0 THEN ni ELSE nn
      node == IF ni > 0 THEN SymbolNode(SubSeq(cs, 1, ni))
              ELSE ConstantNode(UnsignedDecimal(SubSeq(cs, 1, nn)))
      rest == TrimLeft(Drop(cs, len))
      more == ParseSum(Tail(rest))
  IN  IF len = 0 THEN ParseError
      ELSE IF rest = <<>> THEN [ok |-> TRUE, nodes |-> <<node>>]
      ELSE IF Head(rest) # "+" THEN ParseError
      ELSE IF ~more.ok THEN ParseError
      ELSE [ok |-> TRUE, nodes |-> <<node>> \o more.nodes]

\* math.parse(string): a blank expression parses to the constant undefined.
MathParse(chars) ==
  IF Trim(chars) = <<>> THEN [ok |-> TRUE, nodes |-> <<ConstantNode(Undefined)>>]
  ELSE ParseSum(chars)

\* node.eval(): the value of a lone constant, the sum of the operands of a
\* sum; it throws when a symbol is left.
RECURSIVE SumNodes(_)
SumNodes(nodes) ==
  IF Len(nodes) = 1 THEN nodes[1].value
  ELSE NumAdd(ToNumber(SumNodes(SubSeq(nodes, 1, Len(nodes) - 1))),
              ToNumber(nodes[Len(nodes)].value))

EvalThrows(nodes) == \E j \in 1..Len(nodes) : nodes[j].isSymbolNode

\* node.toString(): the operands joined by " + ".
NodeToChars(node) == IF node.isSymbolNode THEN node.name ELSE ToChars(node.value)

RECURSIVE NodesToChars(_)
NodesToChars(nodes) ==
  IF Len(nodes) = 1 THEN NodeToChars(nodes[1])
  ELSE NodesToChars(SubSeq(nodes, 1, Len(nodes) - 1))
       \o <<" ", "+", " ">> \o NodeToChars(nodes[Len(nodes)])

(***************************************************************************)
(* The in-memory creature `char` that buildCreature makes.                 *)
(*                                                                         *)
(* A JavaScript object used as a dictionary is a function from keys        *)
(* (sequences of characters) to values; the insertion order of char.atts,  *)
(* char.skills and char.dms, which `for (statName in ...)` follows, is     *)
(* kept in attKeys, skillKeys and dmKeys.  The effect objects, which the   *)
(* effect lists and char.computedEffects share by reference, live in       *)
(* char.effects, indexed by _id; the lists hold the _id.  An entry of      *)
(* char.variables that is a stat is a reference [type, key] to it, so      *)
(* that the registry and char.atts name one object as in the source.       *)
(***************************************************************************)
EmptyMap == [x \in {} |-> Undefined]
Has(map, key) == key \in DOMAIN map
Put(map, key, val) == (key :> val) @@ map

ModSuffix == <<"M", "o", "d">>
LevelSuffix == <<"L", "e", "v", "e", "l">>
LevelKey == <<"l", "e", "v", "e", "l">>
XpKey == <<"x", "p">>
WeightCarriedKey == <<"w", "e", "i", "g", "h", "t", "C", "a", "r", "r", "i", "e", "d">>
ProficiencyBonusKey ==
  <<"p", "r", "o", "f", "i", "c", "i", "e", "n", "c", "y", "B", "o", "n", "u", "s">>

StatRef(type, key) == [type |-> type, key |-> key, result |-> Undefined]
DerivedVar(type, result) == [type |-> type, key |-> <<>>, result |-> result]

NewChar ==
  [atts |-> EmptyMap, skills |-> EmptyMap, dms |-> EmptyMap,
   attKeys |-> <<>>, skillKeys |-> <<>>, dmKeys |-> <<>>,
   classes |-> EmptyMap, variables |-> EmptyMap,
   otherEffects |-> <<>>, computedEffects |-> <<>>,
   level |-> Num(0), effects |-> <<>>]

NewAttribute(attribute) ==
  [computed |-> FALSE, busyComputing |-> FALSE, type |-> "attribute",
   attributeType |-> attribute.type,
   base |-> IF Truthy(attribute.baseValue) THEN attribute.baseValue ELSE Num(0),
   decimal |-> attribute.decimal,
   result |-> Num(0), mod |-> Num(0), add |-> Num(0), mul |-> Num(1),
   min |-> NegInfinity, max |-> Infinity, effects |-> <<>>]

\* abilityMod is no field of a new skill in the source; combineSkill adds
\* it.  It is here from the start, undefined, as a record cannot grow.
NewSkill(skill) ==
  [computed |-> FALSE, busyComputing |-> FALSE, type |-> "skill",
   ability |-> skill.ability, base |-> skill.baseValue, result |-> Num(0),
   proficiency |-> IF Truthy(skill.baseProficiency) THEN skill.baseProficiency
                   ELSE Num(0),
   add |-> Num(0), mul |-> Num(1), min |-> NegInfinity, max |-> Infinity,
   advantage |-> Num(0), disadvantage |-> Num(0), passiveAdd |-> Num(0),
   fail |-> Num(0), conditional |-> Num(0), effects |-> <<>>,
   proficiencies |-> <<>>, abilityMod |-> Undefined]

NewDamageMultiplier ==
  [computed |-> FALSE, busyComputing |-> FALSE, type |-> "damageMultiplier",
   result |-> Num(0), immunityCount |-> Num(0), ressistanceCount |-> Num(0),
   vulnerabilityCount |-> Num(0), effects |-> <<>>]

AddAttribute(char, attribute) ==
  LET key == attribute.variableName
      modKey == key \o ModSuffix
      added == [char EXCEPT !.atts = Put(@, key, NewAttribute(attribute)),
                            !.attKeys = Append(@, key),
                            !.variables = Put(@, key, StatRef("attribute", key))]
  IN  IF Has(char.atts, key) THEN char
      ELSE IF attribute.type = "ability" /\ ~Has(added.variables, modKey)
      THEN [added EXCEPT !.variables = Put(@, modKey, StatRef("abilityMod", key))]
      ELSE added

AddSkill(char, skill) ==
  LET key == skill.variableName
      added == [char EXCEPT !.skills = Put(@, key, NewSkill(skill)),
                            !.skillKeys = Append(@, key)]
  IN  IF Has(char.skills, key) THEN char
      ELSE IF ~Has(char.variables, key)
      THEN [added EXCEPT !.variables = Put(@, key, StatRef("skill", key))]
      ELSE added

AddDamageMultiplier(char, damageMultiplier) ==
  LET key == damageMultiplier.variableName
      added == [char EXCEPT !.dms = Put(@, key, NewDamageMultiplier),
                            !.dmKeys = Append(@, key)]
  IN  IF Has(char.dms, key) THEN char
      ELSE IF ~Has(char.variables, key)
      THEN [added EXCEPT !.variables = Put(@, key, StatRef("damageMultiplier", key))]
      ELSE added

\* cls.name.replace(/\s+/g, '')
RECURSIVE StripSpaces(_)
StripSpaces(cs) ==
  IF cs = <<>> THEN <<>>
  ELSE IF Head(cs) \in SpaceChars THEN StripSpaces(Tail(cs))
  ELSE <<Head(cs)>> \o StripSpaces(Tail(cs))

AddClass(char, cls, levelOverwritten) ==
  LET strippedCls == StripSpaces(cls.name)
      level == NumAdd(char.level, Num(cls.level))
      counted == [char EXCEPT !.classes = Put(@, strippedCls, [level |-> cls.level]),
                              !.level = level]
      named ==
        IF ~Has(counted.variables, strippedCls)
        THEN [counted EXCEPT !.variables =
                Put(@, strippedCls \o LevelSuffix,
                    DerivedVar("classLevel", Num(cls.level)))]
        ELSE counted
  IN  IF Has(char.classes, strippedCls) THEN char
      ELSE IF ~levelOverwritten
      THEN [named EXCEPT !.variables[LevelKey].result = level]
      ELSE named

AddCreatureProperty(char, creature, key) ==
  IF ~Has(char.variables, key)
  THEN [char EXCEPT !.variables =
          Put(@, key, DerivedVar("creatureProperty",
                IF Truthy(creature[key]) THEN creature[key] ELSE Num(0)))]
  ELSE char

\* A buildCreature that attaches every effect to the first attribute.
AddEffectToFirst(char, effect, id) ==
  [char EXCEPT !.effects = Append(@, [_id |-> id, computed |-> FALSE,
                                      result |-> Num(0),
                                      operation |-> effect.operation,
                                      calculation |-> effect.calculation]),
               !.atts[char.attKeys[1]].effects = Append(@, id)]

\* The effect with _id = id, which is its place in the fetched effects.
AddEffect(char, effect, id) ==
  LET storedEffect == [_id |-> id, computed |-> FALSE, result |-> Num(0),
                       operation |-> effect.operation,
                       calculation |-> effect.calculation]
      stored == [char EXCEPT !.effects = Append(@, storedEffect)]
  IN  IF Has(char.atts, effect.stat)
      THEN [stored EXCEPT !.atts[effect.stat].effects = Append(@, id)]
      ELSE IF Has(char.skills, effect.stat)
      THEN [stored EXCEPT !.skills[effect.stat].effects = Append(@, id)]
      ELSE IF Has(char.dms, effect.stat)
      THEN [stored EXCEPT !.dms[effect.stat].effects = Append(@, id)]
      ELSE [stored EXCEPT !.otherEffects = Append(@, id)]

AddProficiency(char, proficiency) ==
  IF Has(char.skills, proficiency.skill)
  THEN [char EXCEPT !.skills[proficiency.skill].proficiencies =
          Append(@, proficiency)]
  ELSE char

RECURSIVE AddAttributes(_, _)
AddAttributes(char, docs) ==
  IF docs = <<>> THEN char
  ELSE AddAttributes(AddAttribute(char, Head(docs)), Tail(docs))

RECURSIVE AddSkills(_, _)
AddSkills(char, docs) ==
  IF docs = <<>> THEN char
  ELSE AddSkills(AddSkill(char, Head(docs)), Tail(docs))

RECURSIVE AddDamageMultipliers(_, _)
AddDamageMultipliers(char, docs) ==
  IF docs = <<>> THEN char
  ELSE AddDamageMultipliers(AddDamageMultiplier(char, Head(docs)), Tail(docs))

RECURSIVE AddClasses(_, _, _)
AddClasses(char, docs, levelOverwritten) ==
  IF docs = <<>> THEN char
  ELSE AddClasses(AddClass(char, Head(docs), levelOverwritten), Tail(docs),
                  levelOverwritten)

RECURSIVE AddEffects(_, _, _)
AddEffects(char, docs, id) ==
  IF id > Len(docs) THEN char
  ELSE AddEffects(AddEffect(char, docs[id], id), docs, id + 1)

RECURSIVE AddProficiencies(_, _)
AddProficiencies(char, docs) ==
  IF docs = <<>> THEN char
  ELSE AddProficiencies(AddProficiency(char, Head(docs)), Tail(docs))

\* buildCreature(charId), on the documents `data` the collections hold for
\* the creature (effects and proficiencies: the enabled ones).
BuildChar(data) ==
  LET stats == AddDamageMultipliers(
                 AddSkills(AddAttributes(NewChar, data.attributes), data.skills),
                 data.damageMultipliers)
      levelOverwritten == Has(stats.variables, LevelKey)
      levelled ==
        IF ~levelOverwritten
        THEN [stats EXCEPT !.variables =
                Put(@, LevelKey, DerivedVar("characterLevel", Num(0)))]
        ELSE stats
      classed == AddClasses(levelled, data.classes, levelOverwritten)
      propertied ==
        AddCreatureProperty(AddCreatureProperty(classed, data.creature, XpKey),
                            data.creature, WeightCarriedKey)
  IN  AddProficiencies(AddEffects(propertied, data.effects, 1), data.proficiencies)

(***************************************************************************)
(* Stats and registry entries of a built creature.                         *)
(***************************************************************************)
StatTypes == {"attribute", "skill", "damageMultiplier"}

Stat(char, ref) ==
  CASE ref.type = "attribute" -> char.atts[ref.key]
    [] ref.type = "skill" -> char.skills[ref.key]
    [] ref.type = "damageMultiplier" -> char.dms[ref.key]

SetStat(char, ref, stat) ==
  CASE ref.type = "attribute" -> [char EXCEPT !.atts[ref.key] = stat]
    [] ref.type = "skill" -> [char EXCEPT !.skills[ref.key] = stat]
    [] ref.type = "damageMultiplier" -> [char EXCEPT !.dms[ref.key] = stat]

\* Every stat of the creature, as a reference.
StatRefs(char) ==
  {StatRef("attribute", key) : key \in DOMAIN char.atts}
  \cup {StatRef("skill", key) : key \in DOMAIN char.skills}
  \cup {StatRef("damageMultiplier", key) : key \in DOMAIN char.dms}

\* The stat computeStat works on when handed registry entry v: an ability
\* modifier stands for its ability (computeStat, "stat = stat.ability").
OwningStat(v) ==
  IF v.type = "abilityMod" THEN StatRef("attribute", v.key)
  ELSE StatRef(v.type, v.key)

\* v.computed and v.result of a registry entry v: a stat's own fields, the
\* getters of an ability modifier, the stored fields of a derived variable.
VarComputed(char, v) ==
  IF v.type \in StatTypes \cup {"abilityMod"} THEN Stat(char, OwningStat(v)).computed
  ELSE TRUE

VarResult(char, v) ==
  CASE v.type \in StatTypes -> Stat(char, OwningStat(v)).result
    [] v.type = "abilityMod" -> char.atts[v.key].mod
    [] OTHER -> v.result

(***************************************************************************)
(* computeEffect, without the formula case.                                *)
(***************************************************************************)
OccurrenceOperations == {"advantage", "disadvantage", "fail"}

\* Which branch computeEffect takes on an effect; "formula" is the one
\* that goes through transform and eval.  "blank" and "unparsed" are the
\* two early returns of evaluateCalculation.
EffectBranch(effect) ==
  IF effect.computed THEN "computed"
  ELSE IF UnderscoreIsFinite(effect.calculation) THEN "literal"
  ELSE IF effect.operation = "conditional" THEN "conditional"
  ELSE IF effect.operation \in OccurrenceOperations THEN "occurrence"
  ELSE IF ~Truthy(effect.calculation) THEN "blank"
  ELSE IF ~MathParse(effect.calculation.s).ok THEN "unparsed"
  ELSE "formula"

\* effect.result on a branch that needs no formula.
DirectResult(effect, branch) ==
  CASE branch = "literal" -> ToNumber(effect.calculation)
    [] branch = "occurrence" -> Num(1)
    [] OTHER -> effect.calculation

\* The end of computeEffect: the result is stored, the effect is marked
\* computed and pushed on char.computedEffects.
FinishEffect(char, id, result) ==
  [char EXCEPT !.effects[id].result = result,
               !.effects[id].computed = TRUE,
               !.computedEffects = Append(@, id)]

\* A computeEffect without its first line, `if (effect.computed) return`.
ComputeEffectUnguarded(char, id, branch) ==
  FinishEffect(char, id, DirectResult(char.effects[id], branch))

\* computeEffect on an effect that is on a branch other than "formula".
ComputeEffectDirect(char, id, branch) ==
  IF branch = "computed" THEN char
  ELSE FinishEffect(char, id, DirectResult(char.effects[id], branch))

(***************************************************************************)
(* applyEffect and the combiners.                                          *)
(***************************************************************************)
Increment(v) == NumAdd(ToNumber(v), Num(1))

\* An applyEffect without `if (!_.has(stat, effect.operation)) return;`.
applyEffectUnchecked(effect, stat) ==
  IF effect.operation \in DOMAIN stat
  THEN [stat EXCEPT ![effect.operation] = effect.result]
  ELSE (effect.operation :> NaN) @@ stat

applyEffect(effect, stat) ==
  LET op == effect.operation
      r == effect.result
  IN  IF op \notin DOMAIN stat THEN stat
      ELSE CASE op = "base" ->
                  [stat EXCEPT !.base = IF JsGreater(r, @) THEN r ELSE @]
             [] op = "add" -> [stat EXCEPT !.add = JsAdd(@, r)]
             [] op = "mul" -> [stat EXCEPT !.mul = JsMul(@, r)]
             [] op = "min" ->
                  [stat EXCEPT !.min = IF JsGreater(r, @) THEN r ELSE @]
             [] op = "max" ->
                  [stat EXCEPT !.max = IF JsLess(r, @) THEN r ELSE @]
             [] op = "advantage" -> [stat EXCEPT !.advantage = Increment(@)]
             [] op = "disadvantage" -> [stat EXCEPT !.disadvantage = Increment(@)]
             [] op = "passiveAdd" -> [stat EXCEPT !.passiveAdd = JsAdd(@, r)]
             [] op = "fail" -> [stat EXCEPT !.fail = Increment(@)]
             [] op = "conditional" -> [stat EXCEPT !.conditional = Increment(@)]
             [] OTHER -> stat

\* An applyEffect that counts an effect on a damage multiplier as a
\* vulnerability.
ApplyEffectCounting(char, ref, id) ==
  SetStat(char, ref,
          IF ref.type = "damageMultiplier"
          THEN [Stat(char, ref) EXCEPT !.vulnerabilityCount = Increment(@)]
          ELSE applyEffect(char.effects[id], Stat(char, ref)))

ApplyEffectTo(char, ref, id) ==
  SetStat(char, ref, applyEffect(char.effects[id], Stat(char, ref)))

\* result clamped as the two `if` of the combiners do it.
ClampMin(result, min) == IF JsLess(result, min) THEN min ELSE result
ClampMax(result, max) == IF JsGreater(result, max) THEN max ELSE result
Clamp(result, min, max) == ClampMax(ClampMin(result, min), max)

\* combineAttribute from `if (!stat.decimal)` on, stat.result being result.
RoundAttribute(stat, result) ==
  [stat EXCEPT !.result = result,
               !.mod = IF stat.attributeType = "ability"
                       THEN MathFloor(JsHalf(JsSub(result, Num(10))))
                       ELSE @]

FloorUnlessDecimal(stat, result) ==
  RoundAttribute(stat, IF ~stat.decimal THEN MathFloor(result) ELSE result)

\* A combineAttribute without its two clamping lines.
combineAttributeUnclamped(stat) ==
  FloorUnlessDecimal(stat, JsMul(JsAdd(stat.base, stat.add), stat.mul))

combineAttribute(stat) ==
  FloorUnlessDecimal(stat, Clamp(JsMul(JsAdd(stat.base, stat.add), stat.mul),
                                 stat.min, stat.max))

\* A combineDamageMultiplier without its first line.
combineDamageMultiplierNoImmunity(stat) ==
  IF Truthy(stat.ressistanceCount) /\ ~Truthy(stat.vulnerabilityCount)
  THEN [stat EXCEPT !.result = Rat(1, 2)]
  ELSE IF ~Truthy(stat.ressistanceCount) /\ Truthy(stat.vulnerabilityCount)
  THEN [stat EXCEPT !.result = Num(2)]
  ELSE [stat EXCEPT !.result = Num(1)]

\* `if (stat.immunityCount) return 0;` leaves the stat as it is.
combineDamageMultiplier(stat) ==
  IF Truthy(stat.immunityCount) THEN stat
  ELSE IF Truthy(stat.ressistanceCount) /\ ~Truthy(stat.vulnerabilityCount)
  THEN [stat EXCEPT !.result = Rat(1, 2)]
  ELSE IF ~Truthy(stat.ressistanceCount) /\ Truthy(stat.vulnerabilityCount)
  THEN [stat EXCEPT !.result = Num(2)]
  ELSE [stat EXCEPT !.result = Num(1)]

\* combineSkill, first loop: the largest proficiency.
RECURSIVE MaxProficiency(_, _)
MaxProficiency(proficiency, profs) ==
  IF profs = <<>> THEN proficiency
  ELSE MaxProficiency(IF JsGreater(Head(profs).value, proficiency)
                      THEN Head(profs).value ELSE proficiency,
                      Tail(profs))

\* Math.floor(char.level / 4 + 1.75)
LevelProficiencyBonus(level) ==
  MathFloor(NumAdd(NumMul(ToNumber(level), Rat(1, 4)), Rat(7, 4)))

\* combineSkill, from `stat.result = ...` to its end.
\* A combineSkill without its last line, which raises the result to the base.
ResultBelowBase(stat, result) == [stat EXCEPT !.result = result]

BaseOrResult(stat, result) ==
  [stat EXCEPT !.result = IF JsGreater(stat.base, result) THEN stat.base
                          ELSE result]

combineSkillResult(stat, profBonus) ==
  BaseOrResult(stat,
    MathFloor(Clamp(JsMul(JsAdd(JsAdd(stat.abilityMod, profBonus), stat.add),
                          stat.mul),
                    stat.min, stat.max)))

(***************************************************************************)
(* The state.                                                              *)
(*   data      the documents of the creature in the collections            *)
(*   isServer  Meteor.isServer                                             *)
(*   pc        where recomputeCreatureById is: "buildCreature",            *)
(*             "computeCreature" (built, about to compute), "computing"    *)
(*             (inside computeCreature), "computed" (it returned), then    *)
(*             the write function about to run, "returned", or "thrown"    *)
(*             when an exception left recomputeCreatureById                *)
(*   char      the in-memory creature                                      *)
(*   stack     the call stack below computeCreature, innermost call last   *)
(*   k         the place of computeCreature in its four loops              *)
(*   pass      how many times computeCreature was called on char           *)
(*   error     the exception thrown, "none" when none                      *)
(*   written   per collection, the update operations it accepted           *)
(*   attempted the collections a write was issued to                       *)
(*   warned    the collections whose bulkWrite callback logged an error    *)
(*   reentered the stats computeStat was called on while an earlier        *)
(*             computeStat of the same stat was still running              *)
(*   firstPass char as the first computeCreature returned it               *)
(***************************************************************************)
VARIABLES data, isServer, pc, char, stack, k, pass, error, written,
          attempted, warned, reentered, firstPass

vars == <<data, isServer, pc, char, stack, k, pass, error, written,
          attempted, warned, reentered, firstPass>>

\* The frames the call stack may hold before it overflows.
StackLimit == 8
\* The calls of computeCreature on one creature.
MaxPasses == 2

(***************************************************************************)
(* Frames.  A computeStat frame is in its effect loop at effect i, and     *)
(* past the loop in combineStat; ph tells where combineSkill is.  An       *)
(* evaluateCalculation frame stands for computeEffect, evaluateCalculation *)
(* and the transform callback under it: nodes is the parsed expression     *)
(* with the symbols before j substituted, called tells that the callback   *)
(* on node j is waiting for computeStat to return.                         *)
(***************************************************************************)
NoRef == StatRef("none", <<>>)

StatFrame(ref) ==
  [fn |-> "computeStat", stat |-> ref, i |-> 1, ph |-> "effects",
   profBonus |-> Undefined, effect |-> 0, nodes |-> <<>>, j |-> 0,
   called |-> FALSE]

EvalFrame(id, nodes) ==
  [fn |-> "evaluateCalculation", stat |-> NoRef, i |-> 0, ph |-> "transform",
   profBonus |-> Undefined, effect |-> id, nodes |-> nodes, j |-> 1,
   called |-> FALSE]

Top(stk) == stk[Len(stk)]
Pop(stk) == SubSeq(stk, 1, Len(stk) - 1)
ReplaceTop(stk, frame) == [stk EXCEPT ![Len(stk)] = frame]

Machine(c, stk) == [char |-> c, stack |-> stk]

\* A computeStat without `if (stat.computed) return;`.
EnterComputeStatAgain(c, stk, ref) ==
  IF Stat(c, ref).busyComputing
  THEN Machine(SetStat(c, ref, [Stat(c, ref) EXCEPT !.computed = TRUE,
                                                    !.result = NaN,
                                                    !.busyComputing = FALSE]),
               stk)
  ELSE Machine(c, Append(stk, StatFrame(ref)))

(***************************************************************************)
(* computeStat(stat, char), up to its effect loop: the two early returns,  *)
(* or a new frame.  Nothing sets busyComputing before the loop.            *)
(***************************************************************************)
EnterComputeStat(c, stk, ref) ==
  LET stat == Stat(c, ref)
  IN  IF stat.computed THEN Machine(c, stk)
      ELSE IF stat.busyComputing
      THEN Machine(SetStat(c, ref, [stat EXCEPT !.computed = TRUE,
                                               !.result = NaN,
                                               !.busyComputing = FALSE]),
                   stk)
      ELSE Machine(c, Append(stk, StatFrame(ref)))

\* computeEffect(effect, char) as computeStat and computeCreature call it:
\* a frame for a formula, the result at once otherwise.
ComputeEffectOn(c, stk, id, branch) ==
  IF branch = "formula"
  THEN Machine(c, Append(stk, EvalFrame(id, MathParse(c.effects[id].calculation.s).nodes)))
  ELSE Machine(ComputeEffectDirect(c, id, branch), stk)

EnterComputeEffect(c, stk, id) ==
  ComputeEffectOn(c, stk, id, EffectBranch(c.effects[id]))

\* One turn of the effect loop of computeStat: computeEffect, and when it
\* returned at once also applyEffect.
AfterComputeEffect(stk, f, id, m) ==
  IF Len(m.stack) > Len(stk) THEN m
  ELSE Machine(ApplyEffectTo(m.char, f.stat, id),
               ReplaceTop(stk, [f EXCEPT !.i = @ + 1]))

LoopOn(c, stk, f, id) == AfterComputeEffect(stk, f, id, EnterComputeEffect(c, stk, id))

LoopStep(c, stk) == LoopOn(c, stk, Top(stk), Stat(c, Top(stk).stat).effects[Top(stk).i])

\* The transform callback on node j of the expression: a constant and an
\* unknown symbol stay; a known one is computed if need be (getComputedValueOfKey)
\* and replaced by a constant of its result.
\* A getComputedValueOfKey that returns stat.result without computeStat.
SymbolStepUncomputed(c, stk) ==
  IF ~Top(stk).nodes[Top(stk).j].isSymbolNode
     \/ ~Has(c.variables, Top(stk).nodes[Top(stk).j].name)
  THEN Machine(c, ReplaceTop(stk, [Top(stk) EXCEPT !.j = @ + 1]))
  ELSE Machine(c, ReplaceTop(stk,
         [Top(stk) EXCEPT
            !.nodes[Top(stk).j] =
              ConstantNode(VarResult(c, c.variables[Top(stk).nodes[Top(stk).j].name])),
            !.j = @ + 1]))

SymbolStep(c, stk) ==
  LET f == Top(stk)
      node == f.nodes[f.j]
      v == c.variables[node.name]
      next(cc) == [f EXCEPT !.nodes[f.j] = ConstantNode(VarResult(cc, v)),
                            !.j = @ + 1, !.called = FALSE]
      m == EnterComputeStat(c, ReplaceTop(stk, [f EXCEPT !.called = TRUE]),
                            OwningStat(v))
  IN  IF ~node.isSymbolNode \/ ~Has(c.variables, node.name)
      THEN Machine(c, ReplaceTop(stk, [f EXCEPT !.j = @ + 1]))
      ELSE IF f.called \/ VarComputed(c, v)
      THEN Machine(c, ReplaceTop(stk, next(c)))
      ELSE IF Len(m.stack) > Len(stk) THEN m
      ELSE Machine(m.char, ReplaceTop(stk, next(m.char)))

\* An evaluateCalculation whose eval gives NaN where it would throw.
EvalResultNoFallback(nodes) ==
  IF EvalThrows(nodes) THEN NaN ELSE SumNodes(nodes)

\* evaluateCalculation after transform: eval, or toString when eval throws.
EvalResult(nodes) ==
  IF EvalThrows(nodes) THEN Str(NodesToChars(nodes)) ELSE SumNodes(nodes)

\* The return of computeEffect to its caller with the effect's result: to
\* the effect loop of computeStat, which applies the effect, or to
\* computeCreature.
ReturnEffect(c, stk, id, result) ==
  LET done == FinishEffect(c, id, result)
  IN  IF stk = <<>> THEN Machine(done, stk)
      ELSE Machine(ApplyEffectTo(done, Top(stk).stat, id),
                   ReplaceTop(stk, [Top(stk) EXCEPT !.i = @ + 1]))

ReturnStep(c, stk) ==
  ReturnEffect(c, Pop(stk), Top(stk).effect, EvalResult(Top(stk).nodes))

\* An end of computeStat that leaves out `stat.computed = true`.
LeaveUncomputed(stat) == [stat EXCEPT !.busyComputing = FALSE]

\* The end of computeStat.
MarkComputed(stat) == [stat EXCEPT !.computed = TRUE, !.busyComputing = FALSE]

\* combineSkill in three stretches, cut at its two calls of computeStat.
SkillStep(c, stk) ==
  LET f == Top(stk)
      stat == Stat(c, f.stat)
      hasBonus == Has(c.skills, ProficiencyBonusKey)
      bonus == StatRef("skill", ProficiencyBonusKey)
      hasAbility == Truthy(stat.ability) /\ Has(c.atts, stat.ability.s)
      ability == StatRef("attribute", stat.ability.s)
  IN  CASE f.ph = "effects" ->
             LET c1 == SetStat(c, f.stat,
                         [stat EXCEPT !.proficiency =
                            MaxProficiency(@, stat.proficiencies)])
                 waiting == ReplaceTop(stk, [f EXCEPT !.ph = "profBonus"])
             IN  IF hasBonus /\ ~Stat(c1, bonus).computed
                 THEN EnterComputeStat(c1, waiting, bonus)
                 ELSE Machine(c1, waiting)
        [] f.ph = "profBonus" ->
             LET source == IF hasBonus THEN Stat(c, bonus).result
                           ELSE LevelProficiencyBonus(c.level)
                 c1 == SetStat(c, f.stat, [stat EXCEPT !.abilityMod = Num(0)])
                 waiting == ReplaceTop(stk,
                              [f EXCEPT !.ph = "ability",
                                        !.profBonus = JsMul(source, stat.proficiency)])
             IN  IF hasAbility /\ ~Stat(c1, ability).computed
                 THEN EnterComputeStat(c1, waiting, ability)
                 ELSE Machine(c1, waiting)
        [] f.ph = "ability" ->
             LET withMod == IF hasAbility
                            THEN [stat EXCEPT !.abilityMod = Stat(c, ability).mod]
                            ELSE stat
             IN  Machine(SetStat(c, f.stat,
                           MarkComputed(combineSkillResult(withMod, f.profBonus))),
                         Pop(stk))

\* combineStat and the end of computeStat.
CombineStep(c, stk) ==
  LET f == Top(stk)
      stat == Stat(c, f.stat)
  IN  CASE stat.type = "attribute" ->
             Machine(SetStat(c, f.stat, MarkComputed(combineAttribute(stat))), Pop(stk))
        [] stat.type = "damageMultiplier" ->
             Machine(SetStat(c, f.stat, MarkComputed(combineDamageMultiplier(stat))),
                     Pop(stk))
        [] stat.type = "skill" -> SkillStep(c, stk)

\* What the innermost call does next.
InLoop(c, f) == f.fn = "computeStat" /\ f.i <= Len(Stat(c, f.stat).effects)
InCombine(c, f) == f.fn = "computeStat" /\ f.i > Len(Stat(c, f.stat).effects)
InTransform(f) == f.fn = "evaluateCalculation" /\ f.j <= Len(f.nodes)
InEval(f) == f.fn = "evaluateCalculation" /\ f.j > Len(f.nodes)

TopStep(c, stk) ==
  CASE InLoop(c, Top(stk)) -> LoopStep(c, stk)
    [] InCombine(c, Top(stk)) -> CombineStep(c, stk)
    [] InTransform(Top(stk)) -> SymbolStep(c, stk)
    [] InEval(Top(stk)) -> ReturnStep(c, stk)

\* computeCreature: the stats in the order of its three loops, then the
\* unrouted effects.
StatOrder(c) ==
  [n \in 1..Len(c.attKeys) |-> StatRef("attribute", c.attKeys[n])]
  \o [n \in 1..Len(c.skillKeys) |-> StatRef("skill", c.skillKeys[n])]
  \o [n \in 1..Len(c.dmKeys) |-> StatRef("damageMultiplier", c.dmKeys[n])]

\* A computeCreature without its loop over char.otherEffects.
DriverStepStatsOnly(c, n) ==
  IF n <= Len(StatOrder(c)) THEN EnterComputeStat(c, <<>>, StatOrder(c)[n])
  ELSE Machine(c, <<>>)

DriverStep(c, n) ==
  IF n <= Len(StatOrder(c)) THEN EnterComputeStat(c, <<>>, StatOrder(c)[n])
  ELSE EnterComputeEffect(c, <<>>, c.otherEffects[n - Len(StatOrder(c))])

(***************************************************************************)
(* The write-back: the update operations each write function builds.       *)
(***************************************************************************)
AttributeOps(c) ==
  [n \in 1..Len(c.attKeys) |->
     LET att == c.atts[c.attKeys[n]]
     IN  [variableName |-> c.attKeys[n], value |-> att.result,
          mod |-> IF IsNumberType(att.mod) THEN att.mod ELSE Undefined,
          unsetMod |-> ~IsNumberType(att.mod)]]

SkillOps(c) ==
  [n \in 1..Len(c.skillKeys) |->
     LET skill == c.skills[c.skillKeys[n]]
     IN  [variableName |-> c.skillKeys[n], value |-> skill.result,
          abilityMod |-> skill.abilityMod, advantage |-> skill.advantage,
          passiveBonus |-> skill.passiveAdd, proficiency |-> skill.proficiency,
          conditionalBenefits |-> skill.conditional, fail |-> skill.fail]]

DamageMultiplierOps(c) ==
  [n \in 1..Len(c.dmKeys) |->
     [variableName |-> c.dmKeys[n], value |-> c.dms[c.dmKeys[n]].result]]

EffectOps(c) ==
  [n \in 1..Len(c.computedEffects) |->
     [_id |-> c.computedEffects[n], result |-> c.effects[c.computedEffects[n]].result]]

CreatureDocOp(c) ==
  <<[level |-> c.level,
     variables |-> [key \in DOMAIN c.variables |-> VarResult(c, c.variables[key])]]>>

WriteOrder ==
  <<"writeAttributes", "writeSkills", "writeDamageMultipliers", "writeEffects",
    "writeCreatureDoc", "returned">>
NextWrite(fn) == WriteOrder[(CHOOSE n \in 1..5 : WriteOrder[n] = fn) + 1]

BulkOps(c, fn) ==
  CASE fn = "writeAttributes" -> AttributeOps(c)
    [] fn = "writeSkills" -> SkillOps(c)
    [] fn = "writeDamageMultipliers" -> DamageMultiplierOps(c)
    [] fn = "writeEffects" -> EffectOps(c)

(***************************************************************************)
(* The documents of a creature.                                            *)
(***************************************************************************)
Chars_str == <<"s", "t", "r">>
Chars_dex == <<"d", "e", "x">>
Chars_con == <<"c", "o", "n">>
Chars_ath == <<"a", "t", "h">>
Chars_fire == <<"f", "i", "r", "e">>
Chars_none == <<"n", "o", "n", "e">>
Chars_Fighter == <<"F", "i", "g", "h", "t", "e", "r">>

Attribute(key, type, baseValue, decimal) ==
  [variableName |-> key, type |-> type, baseValue |-> baseValue, decimal |-> decimal]
Skill(key, ability, baseValue, baseProficiency) ==
  [variableName |-> key, ability |-> ability, baseValue |-> baseValue,
   baseProficiency |-> baseProficiency]
Effect(stat, operation, calculation) ==
  [stat |-> stat, operation |-> operation, calculation |-> calculation]

\* Two abilities (one kept as a decimal), a plain attribute, a skill on
\* the first ability, a damage multiplier and one class.
BaseDocs ==
  [attributes |-> <<Attribute(Chars_str, "ability", Num(14), FALSE),
                    Attribute(Chars_dex, "ability", Rat(11, 2), TRUE),
                    Attribute(Chars_con, "stat", Num(3), FALSE)>>,
   skills |-> <<Skill(Chars_ath, Str(Chars_str), Undefined, Num(1))>>,
   damageMultipliers |-> <<[variableName |-> Chars_fire]>>,
   classes |-> <<[name |-> Chars_Fighter, level |-> 5]>>,
   creature |-> (XpKey :> Num(300)) @@ (WeightCarriedKey :> Undefined),
   effects |-> <<>>,
   proficiencies |-> <<[skill |-> Chars_ath, value |-> Num(2)]>>]

\* The effects creatures are made of.
EffectCatalogue ==
  {Effect(Chars_str, "add", Str(<<"d", "e", "x">>)),
   Effect(Chars_dex, "add", Str(<<"s", "t", "r">>)),
   Effect(Chars_str, "add", Str(<<"s", "t", "r", " ", "+", " ", "1">>)),
   Effect(Chars_str, "add", Str(<<"a", "t", "h">>)),
   Effect(Chars_con, "add", Str(<<"s", "t", "r", "M", "o", "d", " ", "+", " ", "2">>)),
   Effect(Chars_con, "add", Str(<<"f", "o", "o", " ", "+", " ", "1">>)),
   Effect(Chars_con, "add", Str(<<"d", "e", "x", "+", "f", "o", "o">>)),
   Effect(Chars_con, "add", Str(<<"e", "0">>)),
   Effect(Chars_con, "add", Str(<<"0", ".", "5">>)),
   Effect(Chars_con, "add", Str(<<"1", " ", "+">>)),
   Effect(Chars_con, "add", Undefined),
   Effect(Chars_con, "mul", Str(<<"2">>)),
   Effect(Chars_con, "min", Str(<<"2", "0">>)),
   Effect(Chars_con, "max", Str(<<"1">>)),
   Effect(Chars_con, "conditional", Str(<<"f", "o", "o">>)),
   Effect(Chars_ath, "add", Str(<<"d", "e", "x">>)),
   Effect(Chars_ath, "disadvantage", Undefined),
   Effect(Chars_fire, "add", Str(<<"1">>)),
   Effect(Chars_none, "add", Str(<<"c", "o", "n">>))}

EffectLists ==
  {<<>>} \cup {<<e>> : e \in EffectCatalogue}
  \cup {<<e1, e2>> : e1 \in EffectCatalogue, e2 \in EffectCatalogue}

\* The same with a skill named proficiencyBonus, which combineSkill looks up.
BonusDocs ==
  [BaseDocs EXCEPT !.skills = Append(@, Skill(ProficiencyBonusKey, Undefined,
                                              Num(3), Num(0)))]

\* Further names of stats and classes.
Names ==
  [acr |-> <<"a", "c", "r">>,
   Wizard |-> <<"W", "i", "z", "a", "r", "d">>,
   FighTer |-> <<"F", "i", "g", "h", " ", "t", "e", "r">>]

\* A second skill, on the decimal ability, with a base value in its record
\* and half proficiency.
TrainedDocs ==
  [BaseDocs EXCEPT !.skills = Append(@, Skill(Names.acr, Str(Chars_dex),
                                              Num(10), Rat(1, 2)))]

\* The effects on skills the creatures with two skills are made of.
SkillCatalogue ==
  {Effect(Chars_ath, "max", Str(<<"1", ".", "5">>)),
   Effect(Chars_ath, "min", Str(<<"8", ".", "5">>)),
   Effect(Chars_ath, "base", Str(<<"1", "0">>)),
   Effect(Chars_ath, "mul", Str(<<"0", ".", "5">>)),
   Effect(Chars_ath, "passiveAdd", Str(<<"2">>)),
   Effect(Chars_ath, "advantage", Undefined),
   Effect(Chars_ath, "disadvantage", Str(<<"2">>)),
   Effect(Chars_ath, "fail", Undefined),
   Effect(Chars_ath, "conditional", Str(<<"f", "o", "o">>)),
   Effect(Names.acr, "max", Str(<<"1", ".", "5">>)),
   Effect(Names.acr, "base", Str(<<"1", "2">>)),
   Effect(Names.acr, "add", Str(<<"a", "t", "h">>))}

SkillLists ==
  {<<>>} \cup {<<e>> : e \in SkillCatalogue}
  \cup {<<e1, e2>> : e1 \in SkillCatalogue, e2 \in SkillCatalogue}

\* The class records of a creature: none, one, two, and two whose names
\* differ only by a space.
ClassLists ==
  {<<>>,
   <<[name |-> Chars_Fighter, level |-> 5]>>,
   <<[name |-> Chars_Fighter, level |-> 5], [name |-> Names.Wizard, level |-> 3]>>,
   <<[name |-> Chars_Fighter, level |-> 5], [name |-> Names.FighTer, level |-> 2]>>}

\* Creatures with and without an attribute named level, and with and
\* without a formula that names level.
LevelDocs ==
  {[BaseDocs EXCEPT !.classes = classes,
                    !.attributes = @ \o attributes,
                    !.effects = effects] :
     classes \in ClassLists,
     attributes \in {<<>>, <<Attribute(LevelKey, "stat", Num(7), FALSE)>>},
     effects \in {<<>>, <<Effect(Chars_con, "add", Str(LevelKey))>>}}

\* A creature whose proficiency bonus is an attribute.
BonusAttributeDocs ==
  [BaseDocs EXCEPT !.attributes =
     Append(@, Attribute(ProficiencyBonusKey, "stat", Num(4), FALSE))]

\* Effects whose operation only counts or describes, with a calculation
\* that is a formula, a text or a number, and effects on stats that lack
\* the field of their operation.
MarkerCatalogue ==
  {Effect(Chars_ath, "advantage", Str(Chars_str)),
   Effect(Chars_ath, "fail", Str(<<"f", "o", "o">>)),
   Effect(Chars_ath, "conditional", Str(Chars_str)),
   Effect(Chars_con, "conditional", Str(<<"2">>)),
   Effect(Chars_con, "advantage", Undefined),
   Effect(Chars_con, "passiveAdd", Str(<<"2">>)),
   Effect(Chars_fire, "mul", Str(<<"2">>)),
   Effect(Chars_fire, "advantage", Undefined),
   Effect(Chars_none, "conditional", Str(Chars_dex)),
   Effect(Chars_none, "mul", Str(<<"2">>))}

MarkerLists ==
  {<<e>> : e \in MarkerCatalogue}
  \cup {<<Effect(Chars_none, "mul", Str(<<"2">>)),
          Effect(Chars_con, "add", Str(<<"0", ".", "5">>))>>}

\* A creature with an attribute that has the name of the class-level
\* variable of its class, and a formula that names it.
ClassLevelDocs ==
  [BaseDocs EXCEPT !.attributes = Append(@, Attribute(Chars_Fighter \o LevelSuffix,
                                                      "stat", Num(9), FALSE)),
                   !.effects = <<Effect(Chars_con, "add",
                                        Str(Chars_Fighter \o LevelSuffix))>>]

Creatures ==
  {[BaseDocs EXCEPT !.effects = list] : list \in EffectLists}
  \cup {BonusDocs}
  \cup {[TrainedDocs EXCEPT !.effects = list] : list \in SkillLists}
  \cup LevelDocs
  \cup {BonusAttributeDocs}
  \cup {[BaseDocs EXCEPT !.effects = list] : list \in MarkerLists}
  \cup {ClassLevelDocs}

(***************************************************************************)
(* recomputeCreatureById.                                                  *)
(***************************************************************************)
Init ==
  /\ data \in Creatures
  /\ isServer \in BOOLEAN
  /\ pc = "buildCreature"
  /\ char = NewChar
  /\ stack = <<>>
  /\ k = 0
  /\ pass = 0
  /\ error = "none"
  /\ written = [fn \in {} |-> <<>>]
  /\ attempted = {}
  /\ warned = {}
  /\ reentered = {}
  /\ firstPass = NewChar

\* let char = buildCreature(charId);
BuildCreature ==
  /\ pc = "buildCreature"
  /\ char' = BuildChar(data)
  /\ pc' = "computeCreature"
  /\ UNCHANGED <<data, isServer, stack, k, pass, error, written, attempted,
                 warned, reentered, firstPass>>

\* The call of computeCreature(char): the one of recomputeCreatureById,
\* and, computeCreature being exported, further ones on the same char.
CallComputeCreature ==
  /\ pc \in {"computeCreature", "computed"}
  /\ pass < MaxPasses
  /\ pc' = "computing"
  /\ k' = 1
  /\ pass' = pass + 1
  /\ UNCHANGED <<data, isServer, char, stack, error, written, attempted,
                 warned, reentered, firstPass>>

\* The stats with a computeStat frame on stk.
Running(stk) == {stk[n].stat : n \in {m \in 1..Len(stk) : stk[m].fn = "computeStat"}}

\* The machine moves to m, which fits the stack.
MoveTo(m) ==
  /\ Len(m.stack) <= StackLimit
  /\ char' = m.char
  /\ stack' = m.stack
  /\ reentered' =
       IF Len(m.stack) > Len(stack) /\ Top(m.stack).fn = "computeStat"
          /\ Top(m.stack).stat \in Running(stack)
       THEN reentered \cup {Top(m.stack).stat}
       ELSE reentered

\* One turn of a loop of computeCreature, or its return.
ComputeCreature ==
  /\ pc = "computing"
  /\ stack = <<>>
  /\ IF k <= Len(StatOrder(char)) + Len(char.otherEffects)
     THEN /\ MoveTo(DriverStep(char, k))
          /\ k' = k + 1
          /\ UNCHANGED <<pc, firstPass>>
     ELSE /\ pc' = "computed"
          /\ firstPass' = IF pass = 1 THEN char ELSE firstPass
          /\ UNCHANGED <<char, stack, k, reentered>>
  /\ UNCHANGED <<data, isServer, pass, error, written, attempted, warned>>

\* One turn of the effect loop of computeStat.
ComputeStat ==
  /\ pc = "computing"
  /\ stack # <<>>
  /\ InLoop(char, Top(stack))
  /\ MoveTo(LoopStep(char, stack))
  /\ UNCHANGED <<data, isServer, pc, k, pass, error, written, attempted,
                 warned, firstPass>>

\* combineStat and the return of computeStat.
CombineStat ==
  /\ pc = "computing"
  /\ stack # <<>>
  /\ InCombine(char, Top(stack))
  /\ MoveTo(CombineStep(char, stack))
  /\ UNCHANGED <<data, isServer, pc, k, pass, error, written, attempted,
                 warned, firstPass>>

\* The transform callback of evaluateCalculation on one node.
GetComputedValueOfKey ==
  /\ pc = "computing"
  /\ stack # <<>>
  /\ InTransform(Top(stack))
  /\ MoveTo(SymbolStep(char, stack))
  /\ UNCHANGED <<data, isServer, pc, k, pass, error, written, attempted,
                 warned, firstPass>>

\* The end of evaluateCalculation and of the computeEffect that called it.
EvaluateCalculation ==
  /\ pc = "computing"
  /\ stack # <<>>
  /\ InEval(Top(stack))
  /\ MoveTo(ReturnStep(char, stack))
  /\ UNCHANGED <<data, isServer, pc, k, pass, error, written, attempted,
                 warned, firstPass>>

(***************************************************************************)
(* The innermost call makes another call and the call stack runs out: the  *)
(* engine throws a RangeError.  How many frames of the engine fit depends  *)
(* on the library frames between them, so the last frame below StackLimit  *)
(* may or may not fit.  Nothing between computeStat and                    *)
(* recomputeCreatureById catches, except the try around math.parse, which  *)
(* makes evaluateCalculation return its argument.                          *)
(***************************************************************************)
StackOverflow ==
  /\ pc = "computing"
  /\ stack # <<>>
  /\ \E m \in {TopStep(char, stack)} :
       /\ Len(m.stack) > Len(stack)
       /\ Len(m.stack) >= StackLimit
       /\ \/ /\ pc' = "thrown"
             /\ error' = "RangeError"
             /\ stack' = <<>>
             /\ UNCHANGED <<char, reentered>>
          \/ /\ Top(m.stack).fn = "evaluateCalculation"
             /\ MoveTo(ReturnEffect(char, stack, Top(m.stack).effect,
                                    char.effects[Top(m.stack).effect].calculation))
             /\ UNCHANGED <<pc, error>>
  /\ UNCHANGED <<data, isServer, k, pass, written, attempted, warned, firstPass>>

\* writeAttributes, writeSkills, writeDamageMultipliers, writeEffects: on
\* the server one bulkWrite whose callback logs an error; elsewhere an
\* update per operation without a callback, which logs a failure the
\* server reports and throws one of the local collection, with nothing
\* around it to catch.
BulkWrite(fn) ==
  /\ pc = IF fn = "writeAttributes" THEN "computed" ELSE fn
  /\ attempted' = attempted \cup {fn}
  /\ \/ /\ written' = Put(written, fn, BulkOps(char, fn))
        /\ pc' = NextWrite(fn)
        /\ UNCHANGED <<warned, error>>
     \/ /\ isServer \/ BulkOps(char, fn) # <<>>
        /\ warned' = warned \cup {fn}
        /\ pc' = NextWrite(fn)
        /\ UNCHANGED <<written, error>>
     \/ /\ ~isServer
        /\ BulkOps(char, fn) # <<>>
        /\ pc' = "thrown"
        /\ error' = "WriteError"
        /\ UNCHANGED <<written, warned>>
  /\ UNCHANGED <<data, isServer, char, stack, k, pass, reentered, firstPass>>

WriteAttributes == BulkWrite("writeAttributes")
WriteSkills == BulkWrite("writeSkills")
WriteDamageMultipliers == BulkWrite("writeDamageMultipliers")
WriteEffects == BulkWrite("writeEffects")

\* writeCreatureDoc: Creatures.update without a callback, which returns or
\* throws.
WriteCreatureDoc ==
  /\ pc = "writeCreatureDoc"
  /\ attempted' = attempted \cup {"writeCreatureDoc"}
  /\ \/ /\ written' = Put(written, "writeCreatureDoc", CreatureDocOp(char))
        /\ pc' = "returned"
        /\ UNCHANGED error
     \/ /\ pc' = "thrown"
        /\ error' = "WriteError"
        /\ UNCHANGED written
  /\ UNCHANGED <<data, isServer, char, stack, k, pass, warned, reentered,
                 firstPass>>

Next ==
  \/ BuildCreature
  \/ CallComputeCreature
  \/ ComputeCreature
  \/ ComputeStat
  \/ CombineStat
  \/ GetComputedValueOfKey
  \/ EvaluateCalculation
  \/ StackOverflow
  \/ WriteAttributes
  \/ WriteSkills
  \/ WriteDamageMultipliers
  \/ WriteEffects
  \/ WriteCreatureDoc

Spec == Init /\ [][Next]_vars

(***************************************************************************)
(* References between stats.  A stat refers to the stats its effects'      *)
(* formulas name, a skill also to its ability and to the skill named       *)
(* proficiencyBonus: the stats computeStat may be called on while the      *)
(* stat is computed.                                                       *)
(***************************************************************************)
SymbolNames(nodes) ==
  {nodes[j].name : j \in {i \in 1..Len(nodes) : nodes[i].isSymbolNode}}

\* The identifiers of the formula of an effect; none when computeEffect
\* does not treat its calculation as a formula.
FormulaNames(effect) ==
  IF EffectBranch([effect EXCEPT !.computed = FALSE]) = "formula"
  THEN SymbolNames(MathParse(effect.calculation.s).nodes)
  ELSE {}

UnknownNames(c, effect) == {name \in FormulaNames(effect) : ~Has(c.variables, name)}

NamedStats(c, names) ==
  {OwningStat(c.variables[name]) :
     name \in {x \in names : /\ Has(c.variables, x)
                             /\ c.variables[x].type \in StatTypes \cup {"abilityMod"}}}

SkillRefs(c, ref) ==
  IF ref.type # "skill" THEN {}
  ELSE (IF Has(c.skills, ProficiencyBonusKey)
        THEN {StatRef("skill", ProficiencyBonusKey)} ELSE {})
       \cup (IF Truthy(c.skills[ref.key].ability) /\ Has(c.atts, c.skills[ref.key].ability.s)
             THEN {StatRef("attribute", c.skills[ref.key].ability.s)} ELSE {})

EffectsOf(c, ref) == {Stat(c, ref).effects[i] : i \in 1..Len(Stat(c, ref).effects)}

RefersTo(c, ref) ==
  UNION {NamedStats(c, FormulaNames(c.effects[id])) : id \in EffectsOf(c, ref)}
  \cup SkillRefs(c, ref)

RECURSIVE Closure(_, _)
Closure(c, refs) ==
  IF UNION {RefersTo(c, r) : r \in refs} \subseteq refs THEN refs
  ELSE Closure(c, refs \cup UNION {RefersTo(c, r) : r \in refs})

\* The stats ref refers to, directly or through other stats.
DependsOn(c, ref) == Closure(c, RefersTo(c, ref))
OnCycle(c, ref) == ref \in DependsOn(c, ref)
CyclicStats(c) == {ref \in StatRefs(c) : OnCycle(c, ref)}
HasCycle(c) == CyclicStats(c) # {}
\* Neither on a cycle nor depending on a stat that is.
Independent(c, ref) == ({ref} \cup DependsOn(c, ref)) \cap CyclicStats(c) = {}

AllStatsComputed(c) ==
  \A ref \in StatRefs(c) : Stat(c, ref).computed /\ ~Stat(c, ref).busyComputing
AllEffectsComputed(c) == \A id \in 1..Len(c.effects) : c.effects[id].computed
PassEnded == pass >= 1 /\ pc # "computing"

(***************************************************************************)
(* C1: computeCreature terminates for every workspace, also one with a     *)
(* reference cycle: no pass ends by exhausting the call stack.             *)
(***************************************************************************)
C1_PassTerminates == error # "RangeError"

\* The stack only runs out on a workspace with a reference cycle: the
\* deepest chain of calls without one fits the stack.
OverflowOnlyOnCycle == error = "RangeError" => HasCycle(char)

(***************************************************************************)
(* C2: a stat computeStat was re-entered on ends the pass computed, not    *)
(* busy, with result NaN, and no exception is raised.                      *)
(***************************************************************************)
C2_ReenteredStatEndsNaN ==
  \A ref \in reentered :
    /\ error # "RangeError"
    /\ pc = "computed" =>
         /\ Stat(char, ref).computed
         /\ ~Stat(char, ref).busyComputing
         /\ Stat(char, ref).result = NaN

(***************************************************************************)
(* C3: in a workspace with a reference cycle, a stat that is neither on    *)
(* the cycle nor depends on one ends the pass computed, with the result    *)
(* it has in the workspace without the effects of the cyclic stats.        *)
(***************************************************************************)
\* The stat an effect document is routed to, NoRef when to none.
RoutedTo(c, key) ==
  IF Has(c.atts, key) THEN StatRef("attribute", key)
  ELSE IF Has(c.skills, key) THEN StatRef("skill", key)
  ELSE IF Has(c.dms, key) THEN StatRef("damageMultiplier", key)
  ELSE NoRef

\* The documents d without the effects of the cyclic stats of c.
WithoutCyclicEffects(d, c) ==
  LET Kept(e) == RoutedTo(c, e.stat) \notin CyclicStats(c)
  IN  [d EXCEPT !.effects = SelectSeq(@, Kept)]

\* computeCreature run to its return on a workspace without a cycle.
RECURSIVE RunToReturn(_, _, _)
RunMachine(m, n) == RunToReturn(m.char, m.stack, n)
RunToReturn(c, stk, n) ==
  IF stk # <<>> THEN RunMachine(TopStep(c, stk), n)
  ELSE IF n <= Len(StatOrder(c)) + Len(c.otherEffects)
  THEN RunMachine(DriverStep(c, n), n + 1)
  ELSE c

ComputedWithout(built) ==
  IF HasCycle(built) THEN built ELSE RunToReturn(built, <<>>, 1)

SameResults(c, reference) ==
  \A ref \in StatRefs(c) :
    Independent(c, ref) =>
      /\ Stat(c, ref).computed
      /\ ~HasCycle(reference) => Stat(c, ref).result = Stat(reference, ref).result

C3_IndependentStatsComputed ==
  (PassEnded /\ HasCycle(char)) =>
    SameResults(char, ComputedWithout(BuildChar(WithoutCyclicEffects(data, char))))

(***************************************************************************)
(* C4: every stat has computed = false when buildCreature returns, and     *)
(* computed = true and busyComputing = false when computeCreature returns. *)
(***************************************************************************)
C4_ComputedFlags ==
  /\ pc = "computeCreature" =>
       \A ref \in StatRefs(char) : ~Stat(char, ref).computed
  /\ pc = "computed" => AllStatsComputed(char)

C4_Witness ==
  /\ pc = "computed"
  /\ pass = 1
  /\ Len(char.computedEffects) = 2
  /\ Cardinality(StatRefs(char)) = 5

(***************************************************************************)
(* C5: nothing is written before computeCreature has returned: when a      *)
(* write function has been entered, every stat and every effect of the     *)
(* workspace is computed.                                                  *)
(***************************************************************************)
C5_ComputedBeforeWritten ==
  attempted # {} => (pass >= 1 /\ AllStatsComputed(char) /\ AllEffectsComputed(char))

C5_Witness ==
  /\ "writeCreatureDoc" \in attempted
  /\ Len(char.effects) = 2
  /\ char.otherEffects # <<>>

(***************************************************************************)
(* C6: a failed write batch is not propagated to the caller of             *)
(* recomputeCreatureById, the other batches are still attempted, and the   *)
(* workspace in memory stays as computed.                                  *)
(***************************************************************************)
WriteFunctions ==
  {"writeAttributes", "writeSkills", "writeDamageMultipliers", "writeEffects",
   "writeCreatureDoc"}

C6_WriteFailureIsolated ==
  /\ error # "WriteError"
  /\ pc = "returned" => attempted = WriteFunctions
  /\ attempted # {} => char = firstPass

(***************************************************************************)
(* C7: a second computeCreature on a computed workspace changes nothing:   *)
(* no stat, no effect, and computedEffects does not grow.                  *)
(***************************************************************************)
C7_SecondPassChangesNothing == pass >= 2 => char = firstPass

C7_Witness ==
  /\ pass = 2
  /\ pc = "computed"
  /\ char.otherEffects # <<>>
  /\ Len(char.computedEffects) = 2

(***************************************************************************)
(* C8: attaching the effects of a stat in another order that only permutes *)
(* effects of the same operation gives the stat the same result, whatever  *)
(* the effects resolve to.                                                 *)
(***************************************************************************)
RECURSIVE ApplyInOrder(_, _, _)
ApplyInOrder(c, stat, ids) ==
  IF ids = <<>> THEN stat
  ELSE ApplyInOrder(c, applyEffect(c.effects[Head(ids)], stat), Tail(ids))

Orders(ids) ==
  {[i \in 1..Len(ids) |-> ids[f[i]]] :
     f \in {g \in [1..Len(ids) -> 1..Len(ids)] :
              \A i, j \in 1..Len(ids) : g[i] = g[j] => i = j}}

SameOperationOrders(c, ids) ==
  {o \in Orders(ids) :
     \A i \in 1..Len(ids) : c.effects[o[i]].operation = c.effects[ids[i]].operation}

\* profBonus of combineSkill for a skill of proficiency `proficiency`.
ProfBonus(c, proficiency) ==
  JsMul(IF Has(c.skills, ProficiencyBonusKey)
        THEN c.skills[ProficiencyBonusKey].result
        ELSE LevelProficiencyBonus(c.level),
        proficiency)

\* The result of stat `final` of c had its effects been attached as ids;
\* built is the stat as buildCreature made it.
ResultInOrder(c, built, final, ids) ==
  CASE final.type = "attribute" ->
         combineAttribute(ApplyInOrder(c, built, ids)).result
    [] final.type = "damageMultiplier" ->
         combineDamageMultiplier(ApplyInOrder(c, built, ids)).result
    [] final.type = "skill" ->
         combineSkillResult(
           ApplyInOrder(c, [built EXCEPT !.abilityMod = final.abilityMod,
                                         !.proficiency = final.proficiency], ids),
           ProfBonus(c, final.proficiency)).result

OrderIrrelevant(c, built) ==
  \A ref \in StatRefs(c) :
    \A ids \in SameOperationOrders(c, Stat(c, ref).effects) :
      ResultInOrder(c, Stat(built, ref), Stat(c, ref), ids) = Stat(c, ref).result

C8_EffectOrderIrrelevant ==
  (pc = "computed" /\ ~HasCycle(char)) => OrderIrrelevant(char, BuildChar(data))

(***************************************************************************)
(* C9: a formula with an identifier that is not in the registry makes      *)
(* evaluateCalculation return text, the expression with the known          *)
(* identifiers replaced by their values, without an error; the stat of     *)
(* the effect is computed when the pass returns.  (On a workspace without  *)
(* a reference cycle; the identifier is none mathjs defines itself.)       *)
(***************************************************************************)
SubstitutedOperand(c, node) ==
  IF ~node.isSymbolNode THEN ToChars(node.value)
  ELSE IF Has(c.variables, node.name) THEN ToChars(VarResult(c, c.variables[node.name]))
  ELSE node.name

RECURSIVE SubstitutedText(_, _)
SubstitutedText(c, nodes) ==
  IF Len(nodes) = 1 THEN SubstitutedOperand(c, nodes[1])
  ELSE SubstitutedOperand(c, Head(nodes)) \o <<" ", "+", " ">>
       \o SubstitutedText(c, Tail(nodes))

HasUnknownName(c, id) == UnknownNames(c, c.effects[id]) # {}

OwnerComputed(c, id) ==
  \A ref \in StatRefs(c) : id \in EffectsOf(c, ref) => Stat(c, ref).computed

NumericAccumulators(stat) ==
  /\ IsNum(stat.base) /\ IsNum(stat.add) /\ IsNum(stat.mul)
  /\ IsNum(stat.min) \/ stat.min = NegInfinity
  /\ IsNum(stat.max) \/ stat.max = Infinity

\* x < bound for a finite x and a finite or infinite bound.
Below(x, bound) ==
  IF IsNum(bound) THEN x.n * bound.d < bound.n * x.d ELSE bound.n > 0

AtMost(x, max) == IF Below(max, x) /\ IsNum(max) THEN max ELSE x
AtLeast(x, min) == IF IsNum(min) /\ Below(x, min) THEN min ELSE x
Floored(x, decimal) == IF decimal THEN x ELSE Num(x.n \div x.d)

ExpectedResult(stat) ==
  Floored(AtMost(AtLeast(Rat((stat.base.n * stat.add.d + stat.add.n * stat.base.d)
                               * stat.mul.n,
                             stat.base.d * stat.add.d * stat.mul.d),
                         stat.min),
                 stat.max),
          stat.decimal)

ExpectedMod(result) == Num((result.n - 10 * result.d) \div (2 * result.d))

\* An accumulator of the product is NaN and none is text.
NaNAccumulator(stat) ==
  /\ NaN \in {stat.base, stat.add, stat.mul}
  /\ ~IsStr(stat.base) /\ ~IsStr(stat.add) /\ ~IsStr(stat.mul)

C10_AttributeResult ==
  pc = "computed" =>
    \A key \in DOMAIN char.atts :
      /\ NumericAccumulators(char.atts[key]) =>
           /\ char.atts[key].result = ExpectedResult(char.atts[key])
           /\ char.atts[key].attributeType = "ability" =>
                char.atts[key].mod = ExpectedMod(char.atts[key].result)
      /\ NaNAccumulator(char.atts[key]) => char.atts[key].result = NaN

C10_Witness ==
  /\ pc = "computed"
  /\ data.effects = <<>>
  /\ char.atts[Chars_str].base = Num(14)
  /\ char.atts[Chars_str].result = Num(14)
  /\ char.atts[Chars_str].mod = Num(2)

(***************************************************************************)
(* C11: after the pass a skill has proficiency = the largest of its        *)
(* record's baseProficiency and its attached proficiencies, abilityMod =   *)
(* the mod of its ability (0 without one) and, when no stat is named       *)
(* proficiencyBonus, result = floor((abilityMod + floor(level / 4 + 1.75)  *)
(* * proficiency + add) * mul), clamped to [min, max], then raised to its  *)
(* base.  Stated in exact arithmetic, for accumulators that are numbers.   *)
(***************************************************************************)
QAdd(a, b) == Rat(a.n * b.d + b.n * a.d, a.d * b.d)
QMul(a, b) == Rat(a.n * b.n, a.d * b.d)
QMax(a, b) == IF Below(a, b) THEN b ELSE a

\* The record of the skill named key: the first one, as buildCreature
\* keeps it.
SkillRecord(d, key) ==
  d.skills[CHOOSE i \in 1..Len(d.skills) :
             /\ d.skills[i].variableName = key
             /\ \A j \in 1..(i - 1) : d.skills[j].variableName # key]

RECURSIVE LargestValue(_, _, _)
LargestValue(least, profs, key) ==
  IF profs = <<>> THEN least
  ELSE LargestValue(IF Head(profs).skill = key THEN QMax(least, Head(profs).value)
                    ELSE least,
                    Tail(profs), key)

ExpectedProficiency(d, key) ==
  LargestValue(IF IsNum(SkillRecord(d, key).baseProficiency)
               THEN SkillRecord(d, key).baseProficiency ELSE Num(0),
               d.proficiencies, key)

ExpectedAbilityMod(c, stat) ==
  IF IsStr(stat.ability) /\ Has(c.atts, stat.ability.s)
  THEN c.atts[stat.ability.s].mod
  ELSE Num(0)

\* floor(level / 4 + 1.75)
LevelBonus(level) == Num((level.n + 7) \div 4)

NumericSkill(stat) ==
  /\ IsNum(stat.abilityMod) /\ IsNum(stat.proficiency)
  /\ IsNum(stat.add) /\ IsNum(stat.mul)
  /\ IsNum(stat.min) \/ stat.min = NegInfinity
  /\ IsNum(stat.max) \/ stat.max = Infinity

\* (abilityMod + bonus * proficiency + add) * mul
SkillProduct(stat, bonus) ==
  QMul(QAdd(QAdd(stat.abilityMod, QMul(bonus, stat.proficiency)), stat.add), stat.mul)

RaisedToBase(result, base) == IF IsNum(base) THEN QMax(result, base) ELSE result

\* Floored, then clamped, then raised to the base.
FlooredThenClamped(stat, bonus) ==
  RaisedToBase(AtMost(AtLeast(Floored(SkillProduct(stat, bonus), FALSE), stat.min),
                      stat.max),
               stat.base)

NoBonusStat(c) ==
  ~Has(c.skills, ProficiencyBonusKey) /\ ~Has(c.atts, ProficiencyBonusKey)

C11_SkillResult ==
  pc = "computed" =>
    \A key \in DOMAIN char.skills :
      /\ char.skills[key].proficiency = ExpectedProficiency(data, key)
      /\ char.skills[key].abilityMod = ExpectedAbilityMod(char, char.skills[key])
      /\ (NoBonusStat(char) /\ NumericSkill(char.skills[key])) =>
           char.skills[key].result =
             FlooredThenClamped(char.skills[key], LevelBonus(char.level))

\* What combineSkill does: clamped, then floored, then raised to the base.
ClampedThenFloored(stat, bonus) ==
  RaisedToBase(Floored(AtMost(AtLeast(SkillProduct(stat, bonus), stat.min), stat.max),
                       FALSE),
               stat.base)

SkillResultAsCoded ==
  pc = "computed" =>
    \A key \in DOMAIN char.skills :
      (NoBonusStat(char) /\ NumericSkill(char.skills[key])) =>
        char.skills[key].result =
          ClampedThenFloored(char.skills[key], LevelBonus(char.level))

ExpectedMultiplier(immunity, ressistance, vulnerability) ==
  IF immunity.n > 0 THEN Num(0)
  ELSE IF ressistance.n > 0 /\ vulnerability.n = 0 THEN Rat(1, 2)
  ELSE IF ressistance.n = 0 /\ vulnerability.n > 0 THEN Num(2)
  ELSE Num(1)

Counts == {Num(0), Num(1), Num(2)}

CountedMultiplier(immunity, ressistance, vulnerability) ==
  [NewDamageMultiplier EXCEPT !.immunityCount = immunity,
                              !.ressistanceCount = ressistance,
                              !.vulnerabilityCount = vulnerability]

C13_MultiplierResult ==
  /\ pc = "computeCreature" =>
       \A i \in Counts, r \in Counts, v \in Counts :
         combineDamageMultiplier(CountedMultiplier(i, r, v)).result
           = ExpectedMultiplier(i, r, v)
  /\ pc = "computed" =>
       \A key \in DOMAIN char.dms :
         char.dms[key].result =
           ExpectedMultiplier(char.dms[key].immunityCount,
                              char.dms[key].ressistanceCount,
                              char.dms[key].vulnerabilityCount)

C13_Witness ==
  /\ pc = "computed"
  /\ char.dms[Chars_fire].effects # <<>>
  /\ char.dms[Chars_fire].computed
  /\ char.dms[Chars_fire].result = Num(1)

(***************************************************************************)
(* C14: the record writeSkills persists for a skill carries every field of *)
(* the write contract with the computed value: value, abilityMod,          *)
(* advantage, disadvantage, passiveBonus, proficiency, conditionalBenefits *)
(* and fail; the persisted disadvantage is the number of disadvantage      *)
(* effects applied to the skill.                                           *)
(***************************************************************************)
SkillContract ==
  [value |-> "result", abilityMod |-> "abilityMod", advantage |-> "advantage",
   disadvantage |-> "disadvantage", passiveBonus |-> "passiveAdd",
   proficiency |-> "proficiency", conditionalBenefits |-> "conditional",
   fail |-> "fail"]

CarriesContract(op, skill) ==
  \A field \in DOMAIN SkillContract :
    /\ field \in DOMAIN op
    /\ op[field] = skill[SkillContract[field]]

C14_SkillRecordComplete ==
  Has(written, "writeSkills") =>
    \A n \in 1..Len(written["writeSkills"]) :
      CarriesContract(written["writeSkills"][n],
                      char.skills[written["writeSkills"][n].variableName])

(***************************************************************************)
(* C15: after buildCreature char.level and the registry variable level are *)
(* the sum of the levels of all class records of the character, unless a   *)
(* stat named level was registered before, in which case the registry      *)
(* entry level stays that stat.                                            *)
(***************************************************************************)
RECURSIVE SumOfLevels(_)
SumOfLevels(classes) ==
  IF classes = <<>> THEN 0
  ELSE Head(classes).level + SumOfLevels(Tail(classes))

\* The class records whose name without spaces no earlier record has.
RECURSIVE FirstOfName(_, _)
FirstOfName(classes, seen) ==
  IF classes = <<>> THEN <<>>
  ELSE IF StripSpaces(Head(classes).name) \in seen
  THEN FirstOfName(Tail(classes), seen)
  ELSE <<Head(classes)>>
         \o FirstOfName(Tail(classes), seen \cup {StripSpaces(Head(classes).name)})

LevelStats(d) ==
  {d.attributes[n].variableName : n \in 1..Len(d.attributes)}
  \cup {d.skills[n].variableName : n \in 1..Len(d.skills)}

LevelIs(c, d, sum) ==
  /\ c.level = Num(sum)
  /\ Has(c.variables, LevelKey)
  /\ IF LevelKey \in LevelStats(d)
     THEN c.variables[LevelKey].type \in {"attribute", "skill"}
     ELSE c.variables[LevelKey] = DerivedVar("characterLevel", Num(sum))

C15_LevelIsClassSum ==
  pc = "computeCreature" => LevelIs(char, data, SumOfLevels(data.classes))

\* What buildCreature does: a class record whose name without spaces
\* repeats an earlier one is left out of the sum.
LevelAsCoded ==
  pc = "computeCreature" =>
    LevelIs(char, data, SumOfLevels(FirstOfName(data.classes, {})))

(***************************************************************************)
(* C16: from the moment computeStat starts on the effects of a stat that   *)
(* was neither computed nor busy until it marks the stat computed, the     *)
(* stat's busyComputing is true (so that a re-entrant computeStat on the   *)
(* stat takes the cycle branch).                                           *)
(***************************************************************************)
C16_BusyWhileComputing ==
  \A n \in 1..Len(stack) :
    stack[n].fn = "computeStat" =>
      /\ ~Stat(char, stack[n].stat).computed
      /\ Stat(char, stack[n].stat).busyComputing

(***************************************************************************)
(* C17: once the computed flag of a stat or of an effect is true it never  *)
(* becomes false again, and computeStat called on a stat whose computed    *)
(* flag is true returns without changing any field of the workspace.       *)
(***************************************************************************)
ComputedStats(c) == {ref \in StatRefs(c) : Stat(c, ref).computed}
ComputedEffects(c) == {id \in 1..Len(c.effects) : c.effects[id].computed}

\* computeStat on a computed stat, or on the modifier of a computed
\* ability, returns at once.
ReturnsAtOnce ==
  \A name \in DOMAIN char.variables :
    OwningStat(char.variables[name]) \in ComputedStats(char) =>
      EnterComputeStat(char, stack, OwningStat(char.variables[name]))
        = Machine(char, stack)

\* computeCreature is at a stat that is computed already.
AtComputedStat ==
  /\ pc = "computing"
  /\ stack = <<>>
  /\ k <= Len(StatOrder(char))
  /\ StatOrder(char)[k] \in ComputedStats(char)

ComputedKept ==
  /\ ComputedStats(char) \subseteq ComputedStats(char')
  /\ ComputedEffects(char) \subseteq ComputedEffects(char')
  /\ AtComputedStat => (char' = char /\ stack' = <<>>)

C17_ComputedNeverReverts == [][ReturnsAtOnce /\ ComputedKept]_vars

C17_Witness == AtComputedStat /\ pass = 1 /\ ReturnsAtOnce

(***************************************************************************)
(* C18: in every state of a pass each effect has been evaluated at most    *)
(* once: char.computedEffects never holds the same effect twice, and when  *)
(* the pass has ended it holds every enabled effect of the character,      *)
(* routed or not, once.                                                    *)
(***************************************************************************)
Occurrences(effects, id) ==
  Cardinality({n \in 1..Len(effects) : effects[n] = id})

C18_EffectsComputedOnce ==
  /\ \A id \in 1..Len(char.effects) :
       Occurrences(char.computedEffects, id) <= 1
  /\ pc = "computed" =>
       \A id \in 1..Len(char.effects) :
         Occurrences(char.computedEffects, id) = 1

\* The same without the workspaces that have a reference cycle.
EffectsComputedOnceAcyclic == HasCycle(char) \/ C18_EffectsComputedOnce

(***************************************************************************)
(* C19: in a workspace without a reference cycle, when evaluateCalculation *)
(* substitutes a known identifier the stat it names is fully computed      *)
(* (computed is true, all its effects are applied and combined), and the   *)
(* value substituted is that stat's result at the end of the pass; for an  *)
(* identifier <key>Mod the value is the mod of the owning ability, which   *)
(* is computed first.                                                      *)
(***************************************************************************)
\* The identifiers of the registry that frame f of evaluateCalculation has
\* replaced so far, as places in its expression.
Substituted(c, f) ==
  {n \in 1..(f.j - 1) :
     /\ MathParse(c.effects[f.effect].calculation.s).nodes[n].isSymbolNode
     /\ Has(c.variables, MathParse(c.effects[f.effect].calculation.s).nodes[n].name)}

NamedAt(c, f, n) ==
  c.variables[MathParse(c.effects[f.effect].calculation.s).nodes[n].name]

FullyComputed(c, v) ==
  v.type \in StatTypes \cup {"abilityMod"} =>
    /\ Stat(c, OwningStat(v)).computed
    /\ \A n \in 1..Len(Stat(c, OwningStat(v)).effects) :
         c.effects[Stat(c, OwningStat(v)).effects[n]].computed

SubstitutedFrom(c, f) ==
  \A n \in Substituted(c, f) :
    /\ FullyComputed(c, NamedAt(c, f, n))
    /\ f.nodes[n] = ConstantNode(VarResult(c, NamedAt(c, f, n)))

SubstitutedComputed ==
  \A n \in 1..Len(stack) :
    stack[n].fn = "evaluateCalculation" => SubstitutedFrom(char, stack[n])

\* A computed stat keeps its result and its mod to the end of the pass.
ResultsKept ==
  \A ref \in ComputedStats(char) : Stat(char', ref) = Stat(char, ref)

C19_SubstitutedValueIsFinal ==
  [][~HasCycle(char) => (SubstitutedComputed /\ ResultsKept)]_vars

C19_Witness ==
  /\ ~HasCycle(char)
  /\ stack # <<>>
  /\ Top(stack).fn = "evaluateCalculation"
  /\ Top(stack).j = 2
  /\ Substituted(char, Top(stack)) = {1}
  /\ NamedAt(char, Top(stack), 1) = StatRef("abilityMod", Chars_str)
  /\ char.atts[Chars_str].effects # <<>>
  /\ Top(stack).nodes[1] = ConstantNode(Num(4))
  /\ SubstitutedComputed

(***************************************************************************)
(* C20: when a stat keyed proficiencyBonus exists, attribute or skill,     *)
(* the proficiency contribution of every skill uses that stat's computed   *)
(* result in place of floor(level / 4 + 1.75), and the pass terminates     *)
(* with that stat and every skill computed.                                *)
(***************************************************************************)
BonusStat(c) ==
  IF Has(c.skills, ProficiencyBonusKey) THEN c.skills[ProficiencyBonusKey]
  ELSE c.atts[ProficiencyBonusKey]

UsesBonusStat(c, key) ==
  /\ c.skills[key].computed
  /\ (key # ProficiencyBonusKey /\ NumericSkill(c.skills[key])
        /\ IsNum(BonusStat(c).result)) =>
       c.skills[key].result = ClampedThenFloored(c.skills[key], BonusStat(c).result)

BonusPassTerminates == ~NoBonusStat(char) => error # "RangeError"

BonusResultUsed ==
  (~NoBonusStat(char) /\ pc = "computed") =>
    /\ BonusStat(char).computed
    /\ \A key \in DOMAIN char.skills : UsesBonusStat(char, key)

C20_BonusStatUsed == BonusPassTerminates /\ BonusResultUsed

(***************************************************************************)
(* C21: for every effect whose operation is advantage, disadvantage or     *)
(* fail, computeEffect sets result to 1 whatever the calculation is:       *)
(* absent, a literal number, a formula or a text.                          *)
(***************************************************************************)
OccurrenceEffects(c) ==
  {id \in ComputedEffects(c) : c.effects[id].operation \in OccurrenceOperations}

C21_OccurrenceResultIsOne ==
  \A id \in OccurrenceEffects(char) : char.effects[id].result = Num(1)

\* What computeEffect does: the number of a calculation that is a number,
\* 1 otherwise.
OccurrenceResultAsCoded ==
  \A id \in OccurrenceEffects(char) :
    char.effects[id].result =
      IF UnderscoreIsFinite(char.effects[id].calculation)
      THEN ToNumber(char.effects[id].calculation)
      ELSE Num(1)

(***************************************************************************)
(* C22: for every effect whose operation is conditional, computeEffect     *)
(* sets result to the calculation text unchanged, never converts or        *)
(* evaluates it to a number, also when the text is a numeric literal or a  *)
(* valid formula, and computes no stat for it.                             *)
(***************************************************************************)
ConditionalEffects(c) ==
  {id \in ComputedEffects(c) : c.effects[id].operation = "conditional"}

NeverEvaluated(c, stk) ==
  \A n \in 1..Len(stk) :
    stk[n].fn = "evaluateCalculation" =>
      c.effects[stk[n].effect].operation # "conditional"

C22_ConditionalResultIsText ==
  /\ NeverEvaluated(char, stack)
  /\ \A id \in ConditionalEffects(char) :
       char.effects[id].result = char.effects[id].calculation

\* What computeEffect does: the number of a calculation that is a number,
\* the text otherwise.
ConditionalResultAsCoded ==
  /\ NeverEvaluated(char, stack)
  /\ \A id \in ConditionalEffects(char) :
       char.effects[id].result =
         IF UnderscoreIsFinite(char.effects[id].calculation)
         THEN ToNumber(char.effects[id].calculation)
         ELSE char.effects[id].calculation

(***************************************************************************)
(* C23: applyEffect with an operation whose accumulator field the stat     *)
(* does not have (any operation on a damage multiplier; advantage,         *)
(* disadvantage, passiveAdd, fail or conditional on an attribute) leaves   *)
(* every field of the stat unchanged and raises no error.                  *)
(***************************************************************************)
Operations ==
  {"base", "add", "mul", "min", "max", "advantage", "disadvantage",
   "passiveAdd", "fail", "conditional"}

SkillOnlyOperations ==
  {"advantage", "disadvantage", "passiveAdd", "fail", "conditional"}

AppliedResults == {Num(1), Rat(1, 2), NaN, Str(<<"f", "o", "o">>)}

LackedBy(stat) ==
  CASE stat.type = "damageMultiplier" -> Operations
    [] stat.type = "attribute" -> SkillOnlyOperations
    [] OTHER -> {}

\* applyEffect on stat with an operation it lacks, whatever the result.
LeftUnchanged(stat) ==
  \A op \in LackedBy(stat), r \in AppliedResults :
    /\ op \notin DOMAIN stat
    /\ applyEffect([operation |-> op, result |-> r], stat) = stat

\* The effects of the stat are all of operations it lacks.
OnlyLacking(c, stat) ==
  \A n \in 1..Len(stat.effects) :
    c.effects[stat.effects[n]].operation \in LackedBy(stat)

\* The stat as computeStat leaves it when no effect has changed it.
CombinedAsBuilt(built) ==
  MarkComputed(IF built.type = "attribute" THEN combineAttribute(built)
               ELSE combineDamageMultiplier(built))

\* The computed attributes and damage multipliers of c that only have
\* effects of operations they lack.
UntouchedStats(c) ==
  {ref \in ComputedStats(c) :
     ref.type # "skill" /\ OnlyLacking(c, Stat(c, ref))}

AsBuilt(c, built, refs) ==
  \A ref \in refs : Stat(c, ref) = CombinedAsBuilt(Stat(built, ref))

\* Stated of the stats as buildCreature returns them and as
\* computeCreature returns them.
C23_MissingFieldIsNoOp ==
  /\ pc \in {"computeCreature", "computed"} =>
       \A ref \in StatRefs(char) : LeftUnchanged(Stat(char, ref))
  /\ pc = "computed" => AsBuilt(char, BuildChar(data), UntouchedStats(char))

C23_Witness ==
  /\ pc = "computed"
  /\ error = "none"
  /\ char.atts[Chars_con].effects # <<>>
  /\ OnlyLacking(char, char.atts[Chars_con])
  /\ char.effects[1].operation = "passiveAdd"
  /\ char.effects[1].result = Num(2)
  /\ char.atts[Chars_con] = CombinedAsBuilt(BuildChar(data).atts[Chars_con])

(***************************************************************************)
(* C24: buildCreature places every enabled effect in exactly one list: the *)
(* effect list of the one stat whose key is the effect's target, or the    *)
(* unrouted list when no stat matches; during the pass an unrouted effect  *)
(* is evaluated and appended to the audit list, and its operation and      *)
(* result are applied to the accumulators of no stat.                      *)
(***************************************************************************)
\* How often effect id stands in the effect lists of the stats and in the
\* unrouted list.
Places(c, id) ==
  {<<ref, n>> \in StatRefs(c) \X (1..Len(c.effects)) :
     n <= Len(Stat(c, ref).effects) /\ Stat(c, ref).effects[n] = id}

InOneList(c, d, id) ==
  /\ Cardinality(Places(c, id)) + Occurrences(c.otherEffects, id) = 1
  /\ IF RoutedTo(c, d.effects[id].stat) = NoRef
     THEN Occurrences(c.otherEffects, id) = 1
     ELSE Occurrences(Stat(c, RoutedTo(c, d.effects[id].stat)).effects, id) = 1

Unrouted(c) == {c.otherEffects[n] : n \in 1..Len(c.otherEffects)}

\* The accumulators of the stat are those of the stat as built with its
\* own effects applied, in their order.
OwnEffectsOnly(c, stat, built) ==
  \A field \in DOMAIN stat \cap Operations :
    stat[field] = ApplyInOrder(c, built, stat.effects)[field]

CountsAreZero(stat) ==
  /\ stat.immunityCount = Num(0)
  /\ stat.ressistanceCount = Num(0)
  /\ stat.vulnerabilityCount = Num(0)

C25_CountsStayZero ==
  \A key \in DOMAIN char.dms :
    /\ CountsAreZero(char.dms[key])
    /\ char.dms[key].result = IF char.dms[key].computed THEN Num(1) ELSE Num(0)
    /\ pc = "computed" => char.dms[key].computed

C25_Witness ==
  /\ pc = "computed"
  /\ char.dms[Chars_fire].effects = <<1>>
  /\ char.effects[1].operation = "mul"
  /\ char.effects[1].result = Num(2)
  /\ CountsAreZero(char.dms[Chars_fire])
  /\ char.dms[Chars_fire].result = Num(1)

(***************************************************************************)
(* C26: buildCreature never replaces an entry of the variable registry     *)
(* that holds an attribute, a skill, a damage multiplier or an ability     *)
(* modifier with a derived variable (<Class>Level, level, xp,              *)
(* weightCarried): a stat registered under a name stays resolvable under   *)
(* that name.                                                              *)
(***************************************************************************)
NamesOf(docs) == {docs[n].variableName : n \in 1..Len(docs)}

\* The names buildCreature registers stats and ability modifiers under.
RegisteredStats(d) ==
  NamesOf(d.attributes) \cup NamesOf(d.skills) \cup NamesOf(d.damageMultipliers)
  \cup {d.attributes[n].variableName \o ModSuffix :
          n \in {m \in 1..Len(d.attributes) : d.attributes[m].type = "ability"}}

ClassLevelNames(d) ==
  {StripSpaces(d.classes[n].name) \o LevelSuffix : n \in 1..Len(d.classes)}

HoldsStat(c, name) ==
  /\ Has(c.variables, name)
  /\ c.variables[name].type \in StatTypes \cup {"abilityMod"}

C26_StatsStayRegistered ==
  pc # "buildCreature" =>
    \A name \in RegisteredStats(data) : HoldsStat(char, name)

\* What buildCreature does: only the class-level variables replace a stat.
RegistryAsCoded ==
  pc # "buildCreature" =>
    \A name \in RegisteredStats(data) \ ClassLevelNames(data) :
      HoldsStat(char, name)

====
